---- MODULE Spec2Model ----
(***************************************************************************)
(* A model of installer.py (OffInstaller): the manifest-driven             *)
(* acquisition-and-placement pipeline.                                     *)
(*                                                                         *)
(* Strings that are paths or URLs are modelled as the sequence of their    *)
(* "/"-separated segments: "a/b" is <<"a","b">>, "/a" is <<"","a">>, the   *)
(* empty string is <<"">>.  Python's None is the empty sequence.           *)
(* Absolute paths are written from the root, without the leading empty     *)
(* segment: "/dest/a" is <<"dest","a">>.                                   *)
(***************************************************************************)
EXTENDS Integers, Sequences, FiniteSets, TLC

(* ------------------------------ bounds -------------------------------- *)
\* longest manifest "files" list explored by the plan-building specification
MaxFiles == 2
\* longest manifest "files" list carried through the whole pipeline
MaxPlan == 2

(* --------------------------- string helpers --------------------------- *)
None == <<>>
EmptyStr == <<"">>

\* Python truthiness of an optional string
Truthy(v) == v # None /\ v # EmptyStr

Last(s) == s[Len(s)]
Front(s) == SubSeq(s, 1, Len(s) - 1)

\* str.lstrip("/\\"): the leading separators go; what is left of "//" is ""
RECURSIVE lstrip(_)
lstrip(s) == IF Len(s) > 1 /\ s[1] = "" THEN lstrip(Tail(s)) ELSE s

RECURSIVE rstripSep(_)
rstripSep(s) == IF Len(s) > 0 /\ Last(s) = "" THEN rstripSep(Front(s)) ELSE s

\* os.path.basename(url): what follows the last "/"
basename(url) == <<Last(url)>>

\* os.path.dirname(t) of an absolute path: the head before the last "/",
\* its trailing separators stripped
dirname(t) == rstripSep(Front(t))

\* os.path.join(base, rel) for a rel that does not start with "/"
join(base, rel) == base \o rel

\* os.path.normpath of an absolute path: "" and "." dropped, ".." pops
RECURSIVE normpath(_, _)
normpath(p, acc) ==
    IF p = <<>> THEN acc
    ELSE IF p[1] = "" \/ p[1] = "." THEN normpath(Tail(p), acc)
    ELSE IF p[1] = ".." THEN normpath(Tail(p), IF acc = <<>> THEN acc ELSE Front(acc))
    ELSE normpath(Tail(p), Append(acc, p[1]))

IsPrefix(d, p) == Len(d) <= Len(p) /\ SubSeq(p, 1, Len(d)) = d

(* ---------------------------- file system ----------------------------- *)
\* fs maps every existing absolute normalised path to "dir" or to the state
\* of a regular file's content: "old" (there before the run), "full"
\* (written completely by a transfer), "part" (opened for writing, not
\* completed), "copy" (copied from the overrides tree).
Root == <<>>
DEST == <<"dest">>
TMP == <<"tmp">>

IsDir(f, p) == p \in DOMAIN f /\ f[p] = "dir"
IsFile(f, p) == p \in DOMAIN f /\ f[p] # "dir"

Bad == <<"?">>

\* The kernel's path walk: every component but the last must be a
\* directory.  Gives the normalised path named by p, or Bad.
RECURSIVE walk(_, _, _)
walk(f, p, cur) ==
    IF p = <<>> THEN cur
    ELSE IF ~IsDir(f, cur) THEN Bad
    ELSE IF p[1] = "" \/ p[1] = "." THEN walk(f, Tail(p), cur)
    ELSE IF p[1] = ".." THEN walk(f, Tail(p), IF cur = Root THEN cur ELSE Front(cur))
    ELSE walk(f, Tail(p), Append(cur, p[1]))

\* os.path.exists(p)
exists(f, p) == LET q == walk(f, p, Root) IN q # Bad /\ q \in DOMAIN f

\* a write that leaves the file system as it was
PutNothing(f, p, v) == f

\* the file system with p created or overwritten
Put(f, p, v) == [q \in DOMAIN f \cup {p} |-> IF q = p THEN v ELSE f[q]]

\* os.makedirs(p, exist_ok=True): creates every missing component; fails
\* (ok = FALSE) when a component is a regular file, or when a directory has
\* to be created and the system refuses.
RECURSIVE makedirs(_, _, _, _)
makedirs(f, p, cur, allowed) ==
    IF p = <<>> THEN [ok |-> TRUE, fs |-> f]
    ELSE IF p[1] = "" \/ p[1] = "." THEN makedirs(f, Tail(p), cur, allowed)
    ELSE IF p[1] = ".."
         THEN makedirs(f, Tail(p), IF cur = Root THEN cur ELSE Front(cur), allowed)
    ELSE LET nxt == Append(cur, p[1]) IN
         IF IsFile(f, nxt) THEN [ok |-> FALSE, fs |-> f]
         ELSE IF IsDir(f, nxt) THEN makedirs(f, Tail(p), nxt, allowed)
         ELSE IF ~allowed THEN [ok |-> FALSE, fs |-> f]
         ELSE makedirs(Put(f, nxt, "dir"), Tail(p), nxt, allowed)

\* ensure_dir(path)
ensure_dir(f, p, allowed) == makedirs(f, p, Root, allowed)

\* open(t, "wb") succeeds when t names a regular file, or nothing yet, in
\* an existing directory; the file is then empty until written
CanOpen(f, t) ==
    LET q == walk(f, t, Root) IN
    /\ q # Bad
    /\ q # Root
    /\ Last(t) \notin {"", ".", ".."}
    /\ ~IsDir(f, q)

OpenWb(f, t) == Put(f, walk(f, t, Root), "part")

\* shutil.rmtree(p, ignore_errors=True)
rmtree(f, p) == [q \in {r \in DOMAIN f : ~IsPrefix(p, r)} |-> f[q]]

(* ------------------------------ manifest ------------------------------ *)
\* a file descriptor of the manifest: {path, filename, url, downloads}
Desc(p, fnm, u, dls) == [path |-> p, filename |-> fnm, url |-> u, downloads |-> dls]
\* a mirror of "downloads": a dict with (or without) "url", or a plain string
Mirror(isdict, u) == [isdict |-> isdict, url |-> u]

U1 == <<"h", "f1">>
U2 == <<"h", "f2">>
U3 == <<"h", "">>

\* iter_manifest_files, one descriptor: its url, or None when it is skipped
descriptor_url(f) ==
    LET first == IF f.downloads # <<>>
                 THEN (LET dl == f.downloads[1] IN dl.url)
                 ELSE None
    IN IF Truthy(first) THEN first ELSE f.url

descriptor_rel(f, url) ==
    lstrip(IF Truthy(f.path) THEN f.path
           ELSE IF Truthy(f.filename) THEN f.filename
           ELSE basename(url))

\* iter_manifest_files(manifest, base_dest): the (url, target) pairs, in order
RECURSIVE iter_manifest_files(_, _)
iter_manifest_files(files, base_dest) ==
    IF files = <<>> THEN <<>>
    ELSE LET f == files[1]
             url == descriptor_url(f)
             rest == iter_manifest_files(Tail(files), base_dest)
         IN IF ~Truthy(url) THEN rest
            ELSE <<[url |-> url, target |-> join(base_dest, descriptor_rel(f, url))]>> \o rest

(* ------------------------------- state -------------------------------- *)
VARIABLES
    pc,        \* where the run stands
    flow,      \* "none", "install" or "download": the flow chosen in run()
    launcher,  \* launcher_present(mc) of the chosen Minecraft directory
    LOG,       \* the global log buffer
    fs,        \* the file system
    td,        \* the scratch extraction directory: "none", "present", "rmtree"
    archive,   \* what the downloaded package holds
    manifest,  \* the manifest loaded from the extracted package
    dl,        \* the locals of the download helper that is running, or ran last
    ov,        \* the locals of apply_overrides_with_rich
    child,     \* what became of the Fabric installer child process
    sel,       \* the version picked in the version selector
    summary,   \* whether the installation summary was printed
    exit       \* the exit code of the process, -1 while it runs

vars == <<pc, flow, launcher, LOG, fs, td, archive, manifest, dl, ov, child, sel, summary, exit>>

Terminal == {"Done", "Aborted", "Crashed", "Cancelled"}

(* -------------------------------- log --------------------------------- *)
\* log(level, message): an event; a and b carry the counts of the message
Ev(level, msg) == [level |-> level, msg |-> msg, a |-> 0, b |-> 0]
EvN(level, msg, a, b) == [level |-> level, msg |-> msg, a |-> a, b |-> b]

\* format_received_message(success, total, ..) / format_copied_message, logged
\* at OK when nothing failed and at WARN otherwise
format_received_message(what, whatFailed, success, total) ==
    LET lvl == IF total - success = 0 THEN "OK" ELSE "WARN" IN
    <<EvN(lvl, what, success, total)>>
    \o (IF total - success > 0
        THEN <<EvN(lvl, whatFailed, total - success, total)>>
        ELSE <<>>)

Count(level) == Cardinality({i \in 1..Len(LOG) : LOG[i].level = level})
Logged(level, msg) == \E i \in 1..Len(LOG) : LOG[i].level = level /\ LOG[i].msg = msg

(* ------------------------ summary and termination ---------------------- *)
\* final_summary_and_save(): prints the summary, saves the log file and
\* calls sys.exit(0), whatever the run came to.  (Writing the log file is
\* taken to succeed.)  `end` is "Done" at the end of a flow and "Aborted"
\* at every other call.
final_summary_exit == 0

\* a summary that returns to its caller in place of exiting
final_summary_and_return(events, end) ==
    /\ LOG' = LOG \o events
    /\ summary' = TRUE
    /\ exit' = exit
    /\ pc' = IF end = "Aborted" THEN "select" ELSE end

final_summary_and_save(events, end) ==
    /\ LOG' = LOG \o events
    /\ summary' = TRUE
    /\ exit' = final_summary_exit
    /\ pc' = end

\* an exception nobody catches: traceback, status 1, no summary
Uncaught(events) ==
    /\ LOG' = LOG \o events
    /\ pc' = "Crashed"
    /\ exit' = 1
    /\ UNCHANGED summary

NoDl == [ctx |-> "none", fn |-> "none", entries |-> <<>>, sizes |-> <<>>,
         i |-> 1, success |-> 0, failed |-> 0, attempts |-> <<>>,
         reported |-> FALSE]
NoOv == [files |-> <<>>, i |-> 1, copied |-> 0, failed |-> 0, ran |-> FALSE]
NoArchive == [manifest |-> "none", files |-> <<>>, loader |-> FALSE,
              mcversion |-> FALSE, overrides |-> FALSE, tree |-> <<>>]
NoChild == [result |-> "none", loader |-> FALSE, mcversion |-> FALSE, jar |-> "absent"]
NoManifest == [files |-> <<>>, loader |-> FALSE, mcversion |-> FALSE]

PKG == <<"tmp", "pack.mrpack">>
JAR == <<"tmp", "fabric-installer.jar">>
PKG_URL == <<"cdn", "pack.mrpack">>
FABRIC_INSTALLER_URL == <<"maven", "fabric-installer.jar">>

BaseFs == (Root :> "dir") @@ (TMP :> "dir")

\* the file systems a run may start from: the destination missing, empty,
\* or already holding a file or a file below a directory; or a package of
\* an earlier run left in the temporary directory
InitFs ==
    { BaseFs,
      BaseFs @@ (DEST :> "dir"),
      BaseFs @@ (DEST :> "dir") @@ (<<"dest", "a">> :> "old"),
      BaseFs @@ (DEST :> "dir") @@ (<<"dest", "a">> :> "dir")
             @@ (<<"dest", "a", "b">> :> "old"),
      BaseFs @@ (DEST :> "dir") @@ (PKG :> "old") }

Init ==
    /\ pc = "start"
    /\ flow = "none"
    /\ launcher = FALSE
    /\ LOG = <<>>
    /\ fs \in InitFs
    /\ td = "none"
    /\ archive = NoArchive
    /\ manifest = NoManifest
    /\ dl = NoDl
    /\ ov = NoOv
    /\ child = NoChild
    /\ sel = "none"
    /\ summary = FALSE
    /\ exit = -1

(* ------------------------------- run() -------------------------------- *)
\* run(), lines 687-701: the libraries are there or the process ends with
\* status 1; the user chooses an action
RunStart ==
    /\ pc = "start"
    /\ \E libs \in BOOLEAN, action \in {"install", "download"} :
         IF ~libs
         THEN /\ pc' = "Crashed"
              /\ exit' = 1
              /\ UNCHANGED <<flow, LOG, summary>>
         ELSE /\ pc' = "fetch"
              /\ flow' = action
              /\ LOG' = LOG \o <<Ev("COMMENT", "starting"), Ev("USER", "action_chosen")>>
              /\ UNCHANGED <<exit, summary>>
    /\ UNCHANGED <<launcher, fs, td, archive, manifest, dl, ov, child, sel>>

\* one event for both ways the registry can fail the run
fetch_failure_event_collapsed(got) == Ev("CRITICAL", "network_error")

\* the critical events of lines 707 and 710: "Network error fetching
\* versions" in the except clause, "No versions found" for an empty list
fetch_failure_event(got) ==
    Ev("CRITICAL", IF got = "error" THEN "network_error" ELSE "no_versions")

\* run(), lines 702-714: fetch_versions() raises, returns no version, or
\* returns versions
FetchVersions ==
    /\ pc = "fetch"
    /\ \E got \in {"error", "empty", "versions"} :
         CASE got = "error" ->
                final_summary_and_save(
                    <<Ev("COMMENT", "fetching"), fetch_failure_event(got)>>, "Aborted")
           [] got = "empty" ->
                final_summary_and_save(
                    <<Ev("COMMENT", "fetching"), Ev("OK", "fetched"),
                      fetch_failure_event(got)>>, "Aborted")
           [] OTHER ->
                /\ LOG' = LOG \o <<Ev("COMMENT", "fetching"), Ev("OK", "fetched")>>
                /\ pc' = IF flow = "download" THEN "select" ELSE "dialog"
                /\ UNCHANGED <<summary, exit>>
    /\ UNCHANGED <<flow, launcher, fs, td, archive, manifest, dl, ov, child, sel>>

\* run(), lines 715-760: the Minecraft directory is asked for and created;
\* without the launcher's marker files the user changes the directory,
\* switches to the download flow, or installs anyway
ChooseDirectory ==
    /\ pc = "dialog"
    /\ \E allowed \in BOOLEAN,
          way \in {"present", "switch", "cancel", "changed_present",
                   "changed_switch", "changed_anyway"} :
         LET made == ensure_dir(fs, DEST, allowed)
             asked == <<Ev("USER", "mc_dir_chosen")>>
             missing == asked \o <<Ev("WARN", "launcher_not_detected"),
                                   Ev("USER", "launcher_missing_choice")>>
             changed == missing \o <<Ev("USER", "new_mc_dir_input")>>
             proceed == <<Ev("OK", "proceeding_with_installation")>>
         IN IF ~made.ok
            THEN /\ final_summary_and_save(
                        asked \o <<Ev("CRITICAL", "mc_dir_not_accessible")>>, "Aborted")
                 /\ UNCHANGED <<fs, flow, launcher>>
            ELSE /\ fs' = made.fs
                 /\ pc' = "select"
                 /\ UNCHANGED <<summary, exit>>
                 /\ CASE way = "present" ->
                           /\ LOG' = LOG \o asked \o proceed
                           /\ launcher' = TRUE
                           /\ flow' = "install"
                      [] way = "switch" ->
                           /\ LOG' = LOG \o missing
                           /\ launcher' = FALSE
                           /\ flow' = "download"
                      [] way = "cancel" ->
                           /\ LOG' = LOG \o changed \o <<Ev("COMMENT", "no_dir_chosen")>>
                           /\ launcher' = FALSE
                           /\ flow' = "download"
                      [] way = "changed_present" ->
                           /\ LOG' = LOG \o changed \o proceed
                           /\ launcher' = TRUE
                           /\ flow' = "install"
                      [] way = "changed_switch" ->
                           /\ LOG' = LOG \o changed \o <<Ev("USER", "fallback_choice")>>
                           /\ launcher' = FALSE
                           /\ flow' = "download"
                      [] OTHER ->
                           /\ LOG' = LOG \o changed
                                     \o <<Ev("USER", "fallback_choice"),
                                          Ev("WARN", "continuing_without_launcher")>>
                                     \o proceed
                           /\ launcher' = FALSE
                           /\ flow' = "install"
    /\ UNCHANGED <<td, archive, manifest, dl, ov, child, sel>>

(* ------------------- the two flows: version and package ---------------- *)
\* parse_and_download_flow 568-579, step_install_flow 627-638
SelectVersion ==
    /\ pc = "select"
    /\ \E picked \in {"none", "mrpack", "no_mrpack"} :
         LET opening == <<Ev(IF flow = "download" THEN "COMMENT" ELSE "USER",
                             "opening_version_selector")>>
         IN IF picked = "none"
            THEN /\ final_summary_and_save(
                        opening \o <<Ev("CRITICAL", "no_version_selected")>>, "Aborted")
                 /\ UNCHANGED sel
            ELSE /\ LOG' = LOG \o opening \o <<Ev("USER", "selected_version")>>
                 /\ sel' = picked
                 /\ pc' = "resolve"
                 /\ UNCHANGED <<summary, exit>>
    /\ UNCHANGED <<flow, launcher, fs, td, archive, manifest, dl, ov, child>>

\* the locals of a download helper that starts on urls/targets
StartDl(ctx, fn, entries) ==
    [ctx |-> ctx, fn |-> fn, entries |-> entries, sizes |-> <<>>, i |-> 1,
     success |-> 0, failed |-> 0, attempts |-> <<>>, reported |-> FALSE]

\* find_mrpack_url and the start of the package download:
\* parse_and_download_flow 582-593, step_install_flow 639-647
ResolveArchiveURL ==
    /\ pc = "resolve"
    /\ IF sel = "no_mrpack"
       THEN /\ final_summary_and_save(<<Ev("CRITICAL", "no_mrpack_found")>>, "Aborted")
            /\ UNCHANGED dl
       ELSE /\ LOG' = LOG \o <<Ev("COMMENT", "downloading_package")>>
            /\ dl' = StartDl("archive",
                             IF flow = "download" THEN "fallback" ELSE "rich",
                             <<[url |-> PKG_URL, target |-> PKG]>>)
            /\ pc' = "dl_probe"
            /\ UNCHANGED <<summary, exit>>
    /\ UNCHANGED <<flow, launcher, fs, td, archive, manifest, ov, child, sel>>

(* ---- download_with_rich / download_with_cumulative_fallback ---------- *)
\* a probe whose failure is not turned into a size
probe_size_unguarded(answer) == IF answer = "length" THEN 1 ELSE -1

\* the size probes, lines 298-305 and 334-345: a probe that fails, or whose
\* answer has no usable content-length, counts 0
probe_size(answer) == IF answer = "length" THEN 1 ELSE 0

Probe ==
    /\ pc = "dl_probe"
    /\ \E answers \in [1..Len(dl.entries) -> {"length", "none", "error"}] :
         /\ dl' = [dl EXCEPT !.sizes = [k \in 1..Len(dl.entries) |-> probe_size(answers[k])]]
         /\ LOG' = LOG \o (IF dl.fn = "rich"
                           THEN <<EvN("COMMENT", "starting_download", Len(dl.entries), 0)>>
                           ELSE <<>>)
    /\ pc' = "dl_next"
    /\ UNCHANGED <<flow, launcher, fs, td, archive, manifest, ov, child, sel, summary, exit>>

\* what is counted for an entry whose GET or open() raised: `failed += 1`
count_failure(d) == [d EXCEPT !.failed = @ + 1, !.i = @ + 1]
count_success(d) == [d EXCEPT !.success = @ + 1, !.i = @ + 1]

\* One turn of the transfer loop up to the first write, lines 365-370:
\* ensure_dir() outside the try, then GET, raise_for_status and open() inside
\* it.  An exception of ensure_dir leaves the helper: the package download's
\* caller and run_fabric_installer catch it, download_and_place does not.
TransferBegin ==
    /\ pc = "dl_next"
    /\ dl.i <= Len(dl.entries)
    /\ \E allowed \in BOOLEAN, response \in {"ok", "error"} :
         LET t == dl.entries[dl.i].target
             made == ensure_dir(fs, dirname(t), allowed)
             tried == [dl EXCEPT !.attempts = Append(@, dl.i)]
         IN IF ~made.ok
            THEN /\ fs' = made.fs
                 /\ dl' = tried
                 /\ IF dl.ctx = "files" THEN Uncaught(<<>>)
                    ELSE IF dl.ctx = "archive"
                    THEN final_summary_and_save(<<Ev("ERROR", "download_error")>>, "Aborted")
                    ELSE /\ LOG' = LOG \o <<Ev("ERROR", "installer_download_failed")>>
                         /\ pc' = "plan"
                         /\ UNCHANGED <<summary, exit>>
            ELSE /\ UNCHANGED <<LOG, summary, exit>>
                 /\ IF response = "ok" /\ CanOpen(made.fs, t)
                    THEN /\ fs' = OpenWb(made.fs, t)
                         /\ dl' = tried
                         /\ pc' = "dl_write"
                    ELSE /\ fs' = made.fs
                         /\ dl' = count_failure(tried)
                         /\ pc' = "dl_next"
    /\ UNCHANGED <<flow, launcher, td, archive, manifest, ov, child, sel>>

\* the streamed writes of the entry, lines 371-378: all chunks arrive and
\* are written, or the stream or a write raises and the entry is counted
\* as failed; the file stays as the writes left it
TransferEnd ==
    /\ pc = "dl_write"
    /\ \E stream \in {"complete", "broken"} :
         LET q == walk(fs, dl.entries[dl.i].target, Root) IN
         IF stream = "complete"
         THEN /\ fs' = Put(fs, q, "full")
              /\ dl' = count_success(dl)
         ELSE /\ fs' = fs
              /\ dl' = count_failure(dl)
    /\ pc' = "dl_next"
    /\ UNCHANGED <<flow, launcher, LOG, td, archive, manifest, ov, child, sel, summary, exit>>

\* the result the helper logs, lines 323-327 and 407-412
download_report(d) ==
    format_received_message("received", "failed_to_receive",
                            d.success, d.success + d.failed)
    \o (IF d.fn = "rich"
        THEN <<Ev(IF d.failed = 0 THEN "OK" ELSE "WARN", "download_finished")>>
        ELSE <<Ev("COMMENT", "total_download_size")>>)

\* a caller that announces the package only when it was received
package_events_if_received(d, fl) ==
    IF d.failed > 0 THEN <<>>
    ELSE <<Ev("OK", "downloaded_package")>>
         \o (IF fl = "download" THEN <<Ev("OK", "package_download_complete")>> ELSE <<>>)

\* what the flow logs when the helper has returned, lines 595-596 and 648;
\* the helper returns nothing and its counts are not looked at
package_events(d, fl) ==
    <<Ev("OK", "downloaded_package")>>
    \o (IF fl = "download" THEN <<Ev("OK", "package_download_complete")>> ELSE <<>>)

\* The loop is over: the helper logs its counts and returns to its caller,
\* which goes on without looking at them.  (The sizes served the progress
\* bar only and are dropped; the counts stay in dl as the helper's result.)  After the package: lines 595-601
\* and 648-653 (mkdtemp); after the Fabric installer: lines 505-508; after
\* the manifest files: download_and_place goes on to the overrides.
\* a caller that builds the plan again after the manifest files
after_download_replanning(ctx) ==
    CASE ctx = "archive" -> "extract"
      [] ctx = "installer" -> "child"
      [] OTHER -> "plan"

\* where the caller of the helper goes on: the extraction after the package,
\* the child process after the Fabric installer, the overrides after the
\* manifest files
after_download(ctx) ==
    CASE ctx = "archive" -> "extract"
      [] ctx = "installer" -> "child"
      [] OTHER -> "overrides"

DownloadFinish ==
    /\ pc = "dl_next"
    /\ dl.i > Len(dl.entries)
    /\ dl' = [dl EXCEPT !.reported = TRUE, !.sizes = <<>>]
    /\ CASE dl.ctx = "archive" ->
              /\ LOG' = LOG \o download_report(dl)
                        \o package_events(dl, flow)
                        \o <<Ev("COMMENT", "extracting_package")>>
              /\ td' = "present"
         [] dl.ctx = "installer" ->
              /\ LOG' = LOG \o download_report(dl) \o <<Ev("USER", "running_installer")>>
              /\ td' = td
         [] OTHER ->
              /\ LOG' = LOG \o download_report(dl)
              /\ td' = td
    /\ pc' = after_download(dl.ctx)
    /\ UNCHANGED <<flow, launcher, fs, archive, manifest, ov, child, sel, summary, exit>>

(* ------------------------- package and manifest ------------------------ *)
\* the file descriptors of the manifests carried through the pipeline
FlowDescs == { Desc(<<"a">>, None, U1, <<>>), Desc(<<"a", "b">>, None, U2, <<>>) }

RECURSIVE SeqsUpTo(_, _)
SeqsUpTo(S, n) ==
    IF n = 0 THEN {<<>>}
    ELSE LET shorter == SeqsUpTo(S, n - 1) IN
         shorter \cup {Append(q, x) : q \in {r \in shorter : Len(r) = n - 1}, x \in S}

\* the files of an overrides tree, relative to it
OvFiles == { <<"a", "b">>, <<"c">> }
MaxTree == 2
Trees == {t \in SeqsUpTo(OvFiles, MaxTree) :
            \A i, j \in 1..Len(t) : i # j => t[i] # t[j]}

\* what a package may hold: no manifest, a manifest that is no JSON, or a
\* manifest with files and dependencies; and an overrides directory or none
Archives ==
    { [NoArchive EXCEPT !.manifest = m] : m \in {"missing", "invalid"} }
    \cup
    { [manifest |-> "present", files |-> fl, loader |-> dep[1], mcversion |-> dep[2],
       overrides |-> o[1], tree |-> o[2]] :
        fl \in SeqsUpTo(FlowDescs, MaxPlan),
        dep \in {<<FALSE, FALSE>>, <<TRUE, FALSE>>, <<TRUE, TRUE>>},
        o \in {<<FALSE, <<>>>>} \cup {<<TRUE, t>> : t \in Trees} }

\* zipfile.ZipFile(tmp_pkg) reads a package that was written completely
\* (or left by an earlier run); anything else raises
Readable(f) == PKG \in DOMAIN f /\ f[PKG] \in {"full", "old"}

\* the extraction, lines 602-608 and 654-660
Extract ==
    /\ pc = "extract"
    /\ \E content \in Archives, intact \in BOOLEAN :
         IF ~Readable(fs) \/ ~intact
         THEN /\ final_summary_and_save(<<Ev("ERROR", "extract_error")>>, "Aborted")
              /\ UNCHANGED archive
         ELSE /\ archive' = content
              /\ LOG' = LOG \o <<Ev("OK", "extraction_complete")>>
              /\ pc' = "manifest"
              /\ UNCHANGED <<summary, exit>>
    /\ UNCHANGED <<flow, launcher, fs, td, manifest, dl, ov, child, sel>>

\* load_manifest_from_td and its caller, lines 609-612 and 661-667
LoadManifest ==
    /\ pc = "manifest"
    /\ CASE archive.manifest = "missing" ->
              /\ final_summary_and_save(<<Ev("CRITICAL", "no_manifest_found")>>, "Aborted")
              /\ UNCHANGED manifest
         [] archive.manifest = "invalid" ->
              /\ Uncaught(<<>>)
              /\ UNCHANGED manifest
         [] OTHER ->
              /\ manifest' = [files |-> archive.files, loader |-> archive.loader,
                              mcversion |-> archive.mcversion]
              /\ pc' = IF flow = "download" THEN "prepare" ELSE "bootstrap"
              /\ UNCHANGED <<LOG, summary, exit>>
    /\ UNCHANGED <<flow, launcher, fs, td, archive, dl, ov, child, sel>>

\* prepare_destination, lines 553-565
PrepareDestination ==
    /\ pc = "prepare"
    /\ \E answer \in {"yes", "no"}, allowed \in BOOLEAN :
         IF exists(fs, DEST)
         THEN /\ IF answer = "yes"
                 THEN /\ fs' = ensure_dir(rmtree(fs, DEST), DEST, TRUE).fs
                      /\ LOG' = LOG \o <<Ev("USER", "destination_prompt_answered"),
                                         Ev("OK", "destination_prepared")>>
                 ELSE /\ fs' = fs
                      /\ LOG' = LOG \o <<Ev("USER", "destination_prompt_answered")>>
              /\ pc' = "plan"
              /\ UNCHANGED <<summary, exit>>
         ELSE LET made == ensure_dir(fs, DEST, allowed) IN
              /\ fs' = made.fs
              /\ IF made.ok
                 THEN /\ LOG' = LOG \o <<Ev("OK", "destination_created")>>
                      /\ pc' = "plan"
                      /\ UNCHANGED <<summary, exit>>
                 ELSE Uncaught(<<>>)
    /\ UNCHANGED <<flow, launcher, td, archive, manifest, dl, ov, child, sel>>

(* ------------------------------ bootstrap ------------------------------ *)
\* step_install_flow 668-675 and the start of run_fabric_installer 498-501
bootstrap_applies_without_markers(m, present) == m.loader

\* the condition of step_install_flow, line 668
bootstrap_applies(m, present) == m.loader /\ present

Bootstrap ==
    /\ pc = "bootstrap"
    /\ IF bootstrap_applies(manifest, launcher)
       THEN /\ LOG' = LOG \o <<Ev("USER", "installing_fabric_loader"),
                               Ev("USER", "downloading_fabric_installer")>>
            /\ dl' = StartDl("installer", "rich",
                             <<[url |-> FABRIC_INSTALLER_URL, target |-> JAR]>>)
            /\ pc' = "dl_probe"
       ELSE /\ LOG' = LOG \o <<Ev("WARN", IF ~manifest.loader
                                         THEN "no_loader_version_in_manifest"
                                         ELSE "launcher_not_detected_skip")>>
            /\ dl' = dl
            /\ pc' = "plan"
    /\ UNCHANGED <<flow, launcher, fs, td, archive, manifest, ov, child, sel, summary, exit>>

\* subprocess.check_call(cmd), lines 505-536: the child runs and exits 0, or
\* exits non-zero (CalledProcessError, logged), or cannot be started at all
\* (OSError, which nothing catches)
\* a check_call with no except clause
caught_nothing(result) == FALSE

\* the except clause of check_call, lines 524-525 and 535-536: it names
\* subprocess.CalledProcessError, the child's non-zero exit, and nothing else
caught_by_run_fabric_installer(result) == result = "nonzero"

RunChild ==
    /\ pc = "child"
    /\ \E ended \in {"exit0", "nonzero", "not_started"} :
         LET jar == IF JAR \in DOMAIN fs THEN fs[JAR] ELSE "absent"
             \* java cannot run a jar that is missing or cut short
             result == IF ended = "exit0" /\ jar # "full" THEN "nonzero" ELSE ended
         IN
         /\ child' = [result |-> result, loader |-> manifest.loader,
                      mcversion |-> manifest.mcversion, jar |-> jar]
         /\ CASE result = "exit0" ->
                   /\ LOG' = LOG \o <<Ev("OK", "fabric_loader_installed")>>
                   /\ pc' = "plan"
                   /\ UNCHANGED <<summary, exit>>
              [] caught_by_run_fabric_installer(result) ->
                   /\ LOG' = LOG \o <<Ev("ERROR", "fabric_installer_failed")>>
                   /\ pc' = "plan"
                   /\ UNCHANGED <<summary, exit>>
              [] OTHER -> Uncaught(<<>>)
    /\ UNCHANGED <<flow, launcher, fs, td, archive, manifest, dl, ov, sel>>

(* --------------------------- download_and_place ------------------------ *)
\* a filter that forgets the overwrite argument
skip_existing_ignoring_overwrite(overwrite, present) == present

\* the filter of download_and_place, line 486
skip_existing(overwrite, present) == ~overwrite /\ present

\* the loop of download_and_place, lines 484-489: the entries kept, and one
\* "Skipping existing" event for each entry left out
\* a planner that leaves entries out without a word
no_skip_notice == <<>>

\* line 487: the notice logged for an entry that is left out
skip_notice == <<Ev("USER", "skipping_existing")>>

RECURSIVE place_loop(_, _, _)
place_loop(pairs, f, overwrite) ==
    IF pairs = <<>> THEN [entries |-> <<>>, events |-> <<>>]
    ELSE LET rest == place_loop(Tail(pairs), f, overwrite) IN
         IF skip_existing(overwrite, exists(f, pairs[1].target))
         THEN [rest EXCEPT !.events = skip_notice \o @]
         ELSE [rest EXCEPT !.entries = <<pairs[1]>> \o @]

\* callers that both pass overwrite=False
overwrite_never(fl) == FALSE

\* the overwrite argument of the two callers, lines 616 and 677
overwrite_of(fl) == fl = "download"

\* a download_and_place that returns when there is nothing to download
after_plan_skipping_overrides(n) == IF n > 0 THEN "dl_probe" ELSE "cleanup"

\* lines 490-494: download_with_rich is called for a plan that is not empty;
\* apply_overrides_with_rich follows in either case
after_plan(n) == IF n > 0 THEN "dl_probe" ELSE "overrides"

\* download_and_place up to the call of download_with_rich, lines 483-493
\* (with line 676 of the install flow before it)
BuildPlan ==
    /\ pc = "plan"
    /\ LET built == place_loop(iter_manifest_files(manifest.files, DEST), fs,
                               overwrite_of(flow))
           n == Len(built.entries)
       IN /\ LOG' = LOG
                    \o (IF flow = "install" THEN <<Ev("USER", "installing_files")>> ELSE <<>>)
                    \o built.events
                    \o (IF n > 0 THEN <<EvN("COMMENT", "downloading_files", n, 0)>> ELSE <<>>)
          /\ dl' = StartDl("files", "rich", built.entries)
          /\ pc' = after_plan(n)
    /\ UNCHANGED <<flow, launcher, fs, td, archive, manifest, ov, child, sel, summary, exit>>

(* ----------------------- apply_overrides_with_rich --------------------- *)
\* lines 415-430: no overrides directory is a notice; else the files of the
\* tree are listed
\* a test that takes the overrides directory to be there
has_overrides_always(ar) == TRUE

\* os.path.isdir(os.path.join(td, "overrides")), line 417
has_overrides(ar) == ar.overrides

ApplyOverrides ==
    /\ pc = "overrides"
    /\ IF ~has_overrides(archive)
       THEN /\ LOG' = LOG \o <<Ev("COMMENT", "no_overrides_directory")>>
            /\ ov' = [NoOv EXCEPT !.ran = TRUE]
            /\ pc' = "cleanup"
       ELSE /\ LOG' = LOG \o <<EvN("COMMENT", "parsing_and_moving", Len(archive.tree), 0)>>
            /\ ov' = [files |-> archive.tree, i |-> 1, copied |-> 0, failed |-> 0,
                      ran |-> TRUE]
            /\ pc' = "copy"
    /\ UNCHANGED <<flow, launcher, fs, td, archive, manifest, dl, child, sel, summary, exit>>

\* shutil.copy2(s, t) writes t, or the file of s's name inside t when t is
\* a directory
copy_target(f, t) == IF IsDir(f, t) THEN Append(t, Last(t)) ELSE t

\* `copied += 1` and `failed += 1` of the copy loop, lines 452-454 and 474-476
count_copied(o) == [o EXCEPT !.copied = @ + 1, !.i = @ + 1]
\* a loop that gives up at the first file it cannot copy
stop_at_copy_failure(o) == [o EXCEPT !.failed = @ + 1, !.i = Len(o.files) + 1]

count_copy_failure(o) == [o EXCEPT !.failed = @ + 1, !.i = @ + 1]

\* one file of the tree, lines 448-455: ensure_dir and copy2 inside the try
CopyOverride ==
    /\ pc = "copy"
    /\ ov.i <= Len(ov.files)
    /\ \E allowed \in BOOLEAN, copies \in BOOLEAN :
         LET t == join(DEST, ov.files[ov.i])
             made == ensure_dir(fs, dirname(t), allowed)
             to == copy_target(made.fs, t)
         IN IF made.ok /\ copies /\ ~IsDir(made.fs, to)
            THEN /\ fs' = Put(made.fs, to, "copy")
                 /\ ov' = count_copied(ov)
            ELSE /\ fs' = made.fs
                 /\ ov' = count_copy_failure(ov)
    /\ UNCHANGED <<pc, flow, launcher, LOG, td, archive, manifest, dl, child, sel, summary, exit>>

\* lines 478-480
OverridesFinish ==
    /\ pc = "copy"
    /\ ov.i > Len(ov.files)
    /\ LOG' = LOG \o format_received_message("copied", "failed_to_copy",
                                             ov.copied, ov.copied + ov.failed)
    /\ pc' = "cleanup"
    /\ UNCHANGED <<flow, launcher, fs, td, archive, manifest, dl, ov, child, sel, summary, exit>>

(* ------------------------------- cleanup ------------------------------- *)
\* the end of both flows, lines 617-624 and 678-685: the scratch directory
\* and the package are removed and the summary ends the run
Cleanup ==
    /\ pc = "cleanup"
    /\ \E removable \in BOOLEAN :
         LET gone == removable /\ PKG \in DOMAIN fs IN
         /\ td' = "rmtree"
         /\ fs' = IF gone THEN [q \in DOMAIN fs \ {PKG} |-> fs[q]] ELSE fs
         /\ final_summary_and_save(
                (IF flow = "download"
                 THEN <<Ev("OK", "all_files_downloaded"), Ev("COMMENT", "files_available_in")>>
                 ELSE <<Ev("OK", "installation_complete"), Ev("OK", "launch_minecraft")>>)
                \o (IF gone THEN <<>> ELSE <<Ev("WARN", "could_not_remove_package")>>), "Done")
    /\ UNCHANGED <<flow, launcher, archive, manifest, dl, ov, child, sel>>

(* ------------------------------- SIGINT -------------------------------- *)
\* _sigint, lines 291-294: "Cancelled." is printed and sys.exit(1) raises
\* SystemExit where the program stands; no handler of the program catches it
Interrupt ==
    /\ pc \notin Terminal
    /\ pc' = "Cancelled"
    /\ exit' = 1
    /\ UNCHANGED <<flow, launcher, LOG, fs, td, archive, manifest, dl, ov, child, sel, summary>>

Next ==
    \/ RunStart
    \/ FetchVersions
    \/ ChooseDirectory
    \/ SelectVersion
    \/ ResolveArchiveURL
    \/ Probe
    \/ TransferBegin
    \/ TransferEnd
    \/ DownloadFinish
    \/ Extract
    \/ LoadManifest
    \/ PrepareDestination
    \/ Bootstrap
    \/ RunChild
    \/ BuildPlan
    \/ ApplyOverrides
    \/ CopyOverride
    \/ OverridesFinish
    \/ Cleanup
    \/ Interrupt

Spec == Init /\ [][Next]_vars

(* ----------------- plan building over a range of manifests ------------- *)
\* File descriptors in the shapes a manifest may give them: a plain,
\* nested or absolute path, or one with ".." segments; a filename only;
\* neither (the url's last segment names the file); no url; mirrors as
\* dicts or strings.
PlanDescs ==
    { Desc(<<"a">>, None, U1, <<>>),
      Desc(<<"a", "b">>, None, U1, <<>>),
      Desc(<<"", "a">>, None, U1, <<>>),
      Desc(<<"..", "x">>, None, U1, <<>>),
      Desc(<<"a", "..", "..", "x">>, None, U1, <<>>),
      Desc(<<"c", "..", "a">>, None, U1, <<>>),
      Desc(None, <<"b">>, U1, <<>>),
      Desc(None, <<"..", "x">>, U1, <<>>),
      Desc(None, None, U1, <<>>),
      Desc(None, None, U3, <<>>),
      Desc(<<"a">>, None, None, <<>>),
      Desc(<<"b">>, None, None, <<Mirror(TRUE, U2)>>),
      Desc(<<"b">>, None, U1, <<Mirror(FALSE, U2)>>),
      Desc(<<"b">>, None, U1, <<Mirror(TRUE, None)>>),
      Desc(<<"b">>, None, None, <<Mirror(TRUE, None), Mirror(TRUE, U2)>>) }

\* download_and_place is entered with the destination directory in place
PlanFs == {f \in InitFs : DEST \in DOMAIN f}

InitPlan ==
    /\ pc = "plan"
    /\ flow \in {"install", "download"}
    /\ launcher = FALSE
    /\ LOG = <<>>
    /\ fs \in PlanFs
    /\ td = "present"
    /\ archive = NoArchive
    /\ manifest \in {[NoManifest EXCEPT !.files = fl] : fl \in SeqsUpTo(PlanDescs, MaxFiles)}
    /\ dl = NoDl
    /\ ov = NoOv
    /\ child = NoChild
    /\ sel = "mrpack"
    /\ summary = FALSE
    /\ exit = -1

NextPlan == BuildPlan

SpecPlan == InitPlan /\ [][NextPlan]_vars

(* ------------- plan building followed by the plan's execution ---------- *)
\* download_and_place over the same range of manifests, up to the end of
\* download_with_rich
NextAcquire ==
    \/ BuildPlan
    \/ Probe
    \/ TransferBegin
    \/ TransferEnd
    \/ DownloadFinish

SpecAcquire == InitPlan /\ [][NextAcquire]_vars

(* ============================== properties ============================ *)
DlPcs == {"dl_probe", "dl_next", "dl_write"}

\* a download helper was started on a non-empty plan and the program has
\* left it other than by SIGINT
DownloadOver == dl.entries # <<>> /\ pc \notin DlPcs /\ pc # "Cancelled"

InsideDest(t) == IsPrefix(DEST, normpath(t, <<>>))

\* C1: every destination of the plan built from the manifest lies inside
\* the destination root, also when a path or filename has ".." segments.
C1_PlanInsideDest ==
    dl.ctx = "files" => \A i \in 1..Len(dl.entries) : InsideDest(dl.entries[i].target)

\* C2: once a plan has been executed, a success and a failure count have
\* been reported and they sum to the number of entries of the plan,
\* whatever happened to each transfer (directory creation included).
C2_CountsSumToPlan ==
    DownloadOver =>
        /\ dl.reported
        /\ dl.success + dl.failed = Len(dl.entries)
        /\ \E k \in 1..Len(LOG) :
               /\ LOG[k].msg = "received"
               /\ LOG[k].a = dl.success
               /\ LOG[k].b = Len(dl.entries)

\* C3: a failure of one entry never keeps the later entries from being
\* attempted: when the execution is over, the loop has taken up every
\* entry once, in plan order.
C3_EveryEntryAttempted ==
    DownloadOver => dl.attempts = [k \in 1..Len(dl.entries) |-> k]

\* C4: when the run has come to its end, no destination of the plan is a
\* file that was opened for writing and not completed.
C4_NoTruncatedDestination ==
    (pc = "Done" /\ dl.ctx = "files") =>
        \A i \in 1..Len(dl.entries) :
            LET q == walk(fs, dl.entries[i].target, Root) IN
            q \in DOMAIN fs => fs[q] # "part"

(* C5 *)
Planned == dl.ctx = "files"
HasUrl(f) == Truthy(descriptor_url(f))
Named(f) == Truthy(f.path) \/ Truthy(f.filename)
\* the destination of a descriptor under the destination root
dest_of(f) == join(DEST, descriptor_rel(f, descriptor_url(f)))
Kept(f) == overwrite_of(flow) \/ ~exists(fs, dest_of(f))
InPlan(f) == \E i \in 1..Len(dl.entries) : dl.entries[i].target = dest_of(f)

\* C5 (as stated): with overwrite=false the plan leaves out every manifest
\* entry whose destination exists and holds every other entry; with
\* overwrite=true no entry is left out because its destination exists.
C5_PlanHoldsEveryOtherEntry ==
    Planned =>
        \A k \in 1..Len(manifest.files) :
            LET f == manifest.files[k] IN
            (HasUrl(f) \/ Named(f)) => (InPlan(f) <=> Kept(f))

\* C5 (amended): the same, for the entries a source url is resolved for;
\* an entry without url is in no plan.
C5_PlanHoldsEveryOtherEntryWithUrl ==
    Planned =>
        /\ \A k \in 1..Len(manifest.files) :
               LET f == manifest.files[k] IN
               HasUrl(f) =>
                   /\ InPlan(f) <=> Kept(f)
                   /\ Kept(f) => \E i \in 1..Len(dl.entries) :
                                    dl.entries[i] = [url |-> descriptor_url(f),
                                                     target |-> dest_of(f)]
        /\ Len(dl.entries) =
               Cardinality({k \in 1..Len(manifest.files) :
                              HasUrl(manifest.files[k]) /\ Kept(manifest.files[k])})

\* a plan built with overwrite=false from two entries, one left out because
\* its destination exists and one kept
C5_Witness ==
    /\ Planned
    /\ ~overwrite_of(flow)
    /\ Len(manifest.files) = 2
    /\ Len(dl.entries) = 1
    /\ \E k \in 1..2 : HasUrl(manifest.files[k]) /\ exists(fs, dest_of(manifest.files[k]))
    /\ Logged("USER", "skipping_existing")

(* C6 *)
StageFailures == {"no_versions", "no_mrpack_found", "extract_error", "no_manifest_found"}

\* C6: a run aborted by "no versions", "no archive URL", an extraction
\* failure or "no manifest" has logged a critical event for it, has run no
\* later stage, and has printed the summary.
C6_StageFailureIsCritical ==
    (pc = "Aborted" /\ Last(LOG).msg \in StageFailures) =>
        /\ Last(LOG).level = "CRITICAL"
        /\ summary
        /\ manifest = NoManifest /\ child = NoChild /\ ov = NoOv
        /\ dl.ctx \in {"none", "archive"}
        /\ Last(LOG).msg \in {"no_versions", "no_mrpack_found"} => dl = NoDl /\ td = "none"
        /\ Last(LOG).msg = "extract_error" => archive = NoArchive

\* C7: the exit code is 0 exactly when the run reached Done; an aborted run
\* ends with a non-zero code.
C7_ExitCodeZeroIffDone ==
    pc \in Terminal => (exit = 0 <=> pc = "Done")

\* C8: a run that made the scratch directory has removed it (or tried to)
\* when it ends, in Done or aborted.
C8_ScratchRemoved ==
    (pc \in {"Done", "Aborted"} /\ td # "none") => td = "rmtree"

\* C9: after a SIGINT during the execution of a plan no destination is left
\* truncated, the summary is printed and the scratch directory cleaned up.
C9_InterruptEndsCleanly ==
    (pc = "Cancelled" /\ dl.entries # <<>> /\ ~dl.reported) =>
        /\ summary
        /\ td # "present"
        /\ \A i \in 1..Len(dl.entries) :
               LET q == walk(fs, dl.entries[i].target, Root) IN
               q \in DOMAIN fs => fs[q] # "part"

\* C10: when the download of the Fabric installer failed, the failure is
\* logged and the installer is never run.
C10_NoChildAfterFailedDownload ==
    (dl.ctx = "installer" /\ dl.reported /\ dl.failed > 0) =>
        /\ Logged("WARN", "failed_to_receive")
        /\ child.result = "none"

(* C11 *)
\* the stage a run stands in, numbered in pipeline order; the three uses of
\* the download helper are told apart by what is being downloaded
StageOf(p, ctx) ==
    CASE p = "start" -> 0
      [] p = "fetch" -> 1
      [] p = "dialog" -> 2
      [] p = "select" -> 3
      [] p = "resolve" -> 4
      [] p \in DlPcs /\ ctx = "archive" -> 5
      [] p = "extract" -> 6
      [] p = "manifest" -> 7
      [] p = "prepare" -> 8
      [] p = "bootstrap" -> 8
      [] p \in DlPcs /\ ctx = "installer" -> 9
      [] p = "child" -> 10
      [] p = "plan" -> 11
      [] p \in DlPcs /\ ctx = "files" -> 12
      [] p = "overrides" -> 13
      [] p = "copy" -> 14
      [] p = "cleanup" -> 15
      [] OTHER -> 16
Stage == StageOf(pc, dl.ctx)

\* C11: the installer child was started with the loader and Minecraft
\* versions of the manifest; when it exited non-zero an error event is
\* logged and the run, unless a SIGINT ends it, goes on to the manifest
\* files, never aborts, and ends after overrides and cleanup with status 0.
C11_NonZeroChildIsNotFatal ==
    child.result = "nonzero" =>
        /\ flow = "install" /\ manifest.loader /\ launcher
        /\ child.loader = manifest.loader
        /\ child.mcversion = manifest.mcversion
        /\ Logged("ERROR", "fabric_installer_failed")
        /\ pc # "Aborted"
        /\ pc = "plan" \/ dl.ctx = "files" \/ pc = "Cancelled"
        /\ pc = "Crashed" => dl.attempts # <<>> /\ ~dl.reported
        /\ Stage \in 13..15 \/ pc = "Done" => dl.entries = <<>> \/ dl.reported
        /\ pc = "Done" => ov.ran /\ td = "rmtree" /\ summary /\ exit = 0

\* the child exited non-zero although the installer had been downloaded,
\* and the run ended in Done with a file received and an override copied
C11_Witness ==
    /\ child.result = "nonzero"
    /\ child.jar = "full"
    /\ pc = "Done"
    /\ dl.success > 0
    /\ ov.copied > 0

(* C12 *)
\* C12: no failure inside the bootstrap step ends the run: a run that
\* entered the bootstrap step and ended without a SIGINT had reached the
\* acquisition of the manifest files.
C12_BootstrapNeverEndsRun ==
    (pc \in {"Aborted", "Crashed", "Done"} /\ Logged("USER", "installing_fabric_loader")) =>
        dl.ctx = "files"

(* C13 *)
\* C13: when the registry query failed the run is aborted right after the
\* fetch step: one critical event is in the log, and no version was
\* selected, nothing downloaded, extracted, transferred or written.
C13_RegistryFailureAbortsAtOnce ==
    Logged("CRITICAL", "network_error") =>
        /\ pc = "Aborted"
        /\ Count("CRITICAL") = 1
        /\ Last(LOG) = Ev("CRITICAL", "network_error")
        /\ sel = "none"
        /\ dl = NoDl /\ td = "none" /\ archive = NoArchive
        /\ manifest = NoManifest /\ child = NoChild /\ ov = NoOv
        /\ fs \in InitFs

\* the registry query failed in a run of the install flow
C13_Witness ==
    /\ flow = "install"
    /\ Logged("CRITICAL", "network_error")
    /\ summary

(* C14 *)
\* C14: every step of a run stays in its stage or moves to a later stage of
\* the pipeline order (so no stage is entered twice), and no step at all is
\* taken once the run is Done or Aborted.
C14_StagesInOrder ==
    [][ /\ pc \notin {"Done", "Aborted"}
        /\ StageOf(pc', dl'.ctx) >= Stage ]_vars

\* a run of the install flow that went through every stage: the installer
\* ran, a file was received, an override copied, and the run is Done
C14_Witness ==
    /\ pc = "Done"
    /\ child.result = "exit0"
    /\ dl.ctx = "files" /\ dl.success > 0
    /\ ov.copied > 0
    /\ td = "rmtree"

(* C15 *)
InPlanOf(d, f) == \E i \in 1..Len(d.entries) : d.entries[i].target = dest_of(f)

\* C15: only the install flow comes to the bootstrap step, and it starts
\* the installer exactly when the manifest names a loader version and the
\* launcher's files are in the Minecraft directory; the plan of the install
\* flow leaves out the entries whose destination exists under that
\* directory (overwrite=false), the plan of the download flow leaves out
\* none (overwrite=true).
C15_FlowsBootstrapAndOverwrite ==
    [][ /\ (pc' \in {"bootstrap", "child"} \/ dl'.ctx = "installer") => flow' = "install"
        /\ (pc = "bootstrap" /\ pc' # "Cancelled") =>
               /\ (pc' = "dl_probe" /\ dl'.ctx = "installer") <=> (manifest.loader /\ launcher)
               /\ ~(manifest.loader /\ launcher) => pc' = "plan" /\ dl' = dl
        /\ (pc = "plan" /\ pc' # "Cancelled") =>
               /\ dl'.ctx = "files"
               /\ \A k \in 1..Len(manifest.files) :
                      LET f == manifest.files[k] IN
                      InPlanOf(dl', f) <=> (flow = "download" \/ ~exists(fs, dest_of(f)))
      ]_vars

\* an install run that ran the installer and then planned some entries
\* and left others out
C15_Witness ==
    /\ flow = "install"
    /\ child.result # "none"
    /\ dl.ctx = "files" /\ dl.entries # <<>>
    /\ Logged("USER", "skipping_existing")

(* C16 *)
\* the plan download_and_place builds from the manifest on the file system
\* as it stands, with overwrite=false
second_plan == place_loop(iter_manifest_files(manifest.files, DEST), fs, FALSE).entries

\* C16: after a plan built with overwrite=false was executed and every
\* transfer succeeded, the plan built again with overwrite=false from the
\* same manifest and destination is empty.
C16_SecondPlanIsEmpty ==
    (flow = "install" /\ pc = "overrides" /\ dl.failed = 0) => second_plan = <<>>

\* a plan of two entries was executed and both transfers succeeded
C16_Witness ==
    /\ flow = "install"
    /\ pc = "overrides"
    /\ Len(dl.entries) = 2
    /\ dl.success = 2
    /\ dl.reported

(* C17 *)
\* the url of the first mirror of the list that provides one
RECURSIVE first_mirror_url(_)
first_mirror_url(dls) ==
    IF dls = <<>> THEN None
    ELSE IF Truthy(dls[1].url) THEN dls[1].url
    ELSE first_mirror_url(Tail(dls))

\* the source url of a descriptor: from its mirrors, else its single url
resolved_url(f) ==
    LET m == first_mirror_url(f.downloads) IN IF Truthy(m) THEN m ELSE f.url

\* C17: the plan (built with overwrite=true, so nothing is left out for
\* existing) has one entry for each descriptor whose single url or whose
\* first url-providing mirror yields a url, and none for the others.
C17_FirstMirrorWithUrlWins ==
    (Planned /\ flow = "download") =>
        /\ Len(dl.entries) =
               Cardinality({k \in 1..Len(manifest.files) :
                              Truthy(resolved_url(manifest.files[k]))})
        /\ \A k \in 1..Len(manifest.files) :
               LET f == manifest.files[k] IN
               Truthy(resolved_url(f)) =>
                   \E i \in 1..Len(dl.entries) : dl.entries[i].url = resolved_url(f)

(* C18 *)
SkipEvents == Cardinality({i \in 1..Len(LOG) : LOG[i].msg = "skipping_existing"})

\* C18 (as stated): with overwrite=false the number of "skipped" events is
\* the number of manifest entries whose destination exists; with
\* overwrite=true there is none.
C18_OneSkipEventPerExistingEntry ==
    Planned =>
        SkipEvents =
            IF overwrite_of(flow) THEN 0
            ELSE Cardinality({k \in 1..Len(manifest.files) :
                                LET f == manifest.files[k] IN
                                /\ HasUrl(f) \/ Named(f)
                                /\ exists(fs, dest_of(f))})

\* C18 (amended): the same count, over the manifest entries a source url is
\* resolved for; each such entry is either in the plan or has its event.
C18_OneSkipEventPerExistingEntryWithUrl ==
    Planned =>
        /\ SkipEvents =
               IF flow = "download" THEN 0
               ELSE Cardinality({k \in 1..Len(manifest.files) :
                                   LET f == manifest.files[k] IN
                                   HasUrl(f) /\ exists(fs, dest_of(f))})
        /\ SkipEvents + Len(dl.entries) =
               Cardinality({k \in 1..Len(manifest.files) : HasUrl(manifest.files[k])})

\* a plan built with overwrite=false that left out both entries of the
\* manifest, with one event for each
C18_Witness ==
    /\ Planned
    /\ flow = "install"
    /\ Len(manifest.files) = 2
    /\ dl.entries = <<>>
    /\ SkipEvents = 2

(* C19 *)
\* C19: applying the overrides of a package without overrides directory
\* leaves the file system as it was, copies nothing and counts no failure,
\* logs one notice of COMMENT level, and hands over to the cleanup.
C19_NoOverridesIsNoOp ==
    [][ (pc = "overrides" /\ ~archive.overrides /\ pc' # "Cancelled") =>
            /\ fs' = fs
            /\ ov'.ran /\ ov'.copied = 0 /\ ov'.failed = 0 /\ ov'.files = <<>>
            /\ LOG' = Append(LOG, Ev("COMMENT", "no_overrides_directory"))
            /\ pc' = "cleanup"
      ]_vars

\* a run whose package had no overrides directory received a file, applied
\* the overrides and is Done
C19_Witness ==
    /\ archive.manifest = "present" /\ ~archive.overrides
    /\ ov.ran
    /\ dl.success > 0
    /\ pc = "Done"

(* C20 *)
\* C20: the copy loop takes up the files of the overrides tree one after
\* the other, each once, counting every one as copied or failed and
\* writing one file per copy; no copy failure ends the run, and the counts
\* reported at the end sum to the number of files of the tree.
C20_EveryOverrideCounted ==
    (ov.ran /\ archive.overrides) =>
        /\ ov.files = archive.tree
        /\ ov.i \in 1..(Len(ov.files) + 1)
        /\ ov.copied + ov.failed = ov.i - 1
        /\ Cardinality({q \in DOMAIN fs : fs[q] = "copy"}) = ov.copied
        /\ pc \in {"copy", "cleanup", "Done", "Cancelled"}
        /\ pc \in {"cleanup", "Done"} =>
               /\ ov.copied + ov.failed = Len(ov.files)
               /\ \E k \in 1..Len(LOG) :
                      /\ LOG[k].msg = "copied"
                      /\ LOG[k].a = ov.copied
                      /\ LOG[k].b = Len(ov.files)
               /\ ov.failed > 0 =>
                      \E k \in 1..Len(LOG) :
                          LOG[k].msg = "failed_to_copy" /\ LOG[k].a = ov.failed

\* in a tree of two files the first could not be copied and the second
\* was, and the run is Done
C20_Witness ==
    /\ ov.files = << <<"a", "b">>, <<"c">> >>
    /\ ov.failed = 1 /\ ov.copied = 1
    /\ <<"dest", "c">> \in DOMAIN fs /\ fs[<<"dest", "c">>] = "copy"
    /\ pc = "Done"

(* C21 *)
\* C21: a probe that fails or whose answer carries no usable length counts
\* 0; the probing step gives every entry of the plan a size, 0 or the
\* length, and hands the whole plan over to the transfer loop, which
\* starts at the first entry.
C21_ProbeFailureCountsZero ==
    [][ (pc = "dl_probe" /\ pc' # "Cancelled") =>
            /\ probe_size("error") = 0 /\ probe_size("none") = 0
            /\ pc' = "dl_next"
            /\ dl'.entries = dl.entries
            /\ DOMAIN dl'.sizes = 1..Len(dl.entries)
            /\ \A k \in 1..Len(dl.entries) : dl'.sizes[k] \in {0, probe_size("length")}
            /\ dl'.i = 1 /\ dl'.attempts = <<>>
            /\ dl'.success = 0 /\ dl'.failed = 0
            /\ summary' = summary /\ exit' = exit
      ]_vars

\* no probe of a plan of two entries gave a size, and both entries were
\* transferred
C21_Witness ==
    /\ dl.ctx = "files"
    /\ dl.sizes = <<0, 0>>
    /\ dl.attempts = <<1, 2>>
    /\ dl.success = 2

(* C22 *)
\* C22: an empty version list and a failed registry query each abort the
\* run before the version selector with a critical event of their own
\* ("no versions" after a fetch that succeeded, "network error" after one
\* that did not), and no run logs both.
C22_EmptyAndFailedFetchDiffer ==
    LET none == Logged("CRITICAL", "no_versions")
        neterr == Logged("CRITICAL", "network_error")
    IN (none \/ neterr) =>
        /\ ~(none /\ neterr)
        /\ none <=> Logged("OK", "fetched")
        /\ Count("CRITICAL") = 1
        /\ Last(LOG).level = "CRITICAL"
        /\ pc = "Aborted" /\ summary
        /\ sel = "none" /\ dl = NoDl
        /\ ~Logged("USER", "opening_version_selector")
        /\ ~Logged("COMMENT", "opening_version_selector")

\* the registry answered with an empty list in a run of the download flow
C22_Witness ==
    /\ flow = "download"
    /\ Logged("OK", "fetched")
    /\ Logged("CRITICAL", "no_versions")
    /\ pc = "Aborted"

(* C23 *)
\* C23: whatever became of the package's transfer, the step that ends its
\* download logs the package as downloaded and goes on to the extraction;
\* a failed transfer that left no readable package ends the run only as an
\* extraction error.
C23_ArchiveOutcomeNeverChecked ==
    /\ [][ (dl.ctx = "archive" /\ pc \in DlPcs /\ pc' \notin DlPcs \cup {"Cancelled"}) =>
              /\ pc' = "extract"
              /\ td' = "present"
              /\ dl'.reported
              /\ Logged("OK", "downloaded_package")'
              /\ Last(LOG') = Ev("COMMENT", "extracting_package")
              /\ summary' = summary /\ exit' = exit
          ]_vars
    /\ [](  (dl.ctx = "archive" /\ dl.reported) =>
              /\ Logged("OK", "downloaded_package")
              /\ (dl.failed > 0 /\ ~Readable(fs) /\ pc \notin {"extract", "Cancelled"}) =>
                     pc = "Aborted" /\ Last(LOG) = Ev("ERROR", "extract_error") )

\* the package's transfer failed, the package was logged as downloaded all
\* the same, and the run was aborted by the extraction
C23_Witness ==
    /\ dl.ctx = "archive" /\ dl.failed = 1
    /\ Logged("WARN", "failed_to_receive")
    /\ Logged("OK", "downloaded_package")
    /\ Last(LOG) = Ev("ERROR", "extract_error")
    /\ pc = "Aborted"

(* C24 *)
\* where copy2 has written the override of relative path r
override_at(f, r) ==
    LET q == walk(f, join(DEST, r), Root) IN
    IF IsDir(f, q) THEN Append(q, Last(r)) ELSE q

\* C24: the overrides are applied after every plan, the empty one
\* included, in both flows; they take the whole tree of the package,
\* log no "skipped" notice, and a copy that succeeds has put the override
\* at its destination whether or not a file was there.
C24_OverridesIgnoreSkipPolicy ==
    /\ [][ /\ (pc = "plan" /\ pc' # "Cancelled" /\ dl'.entries = <<>>) => pc' = "overrides"
           /\ (dl.ctx = "files" /\ pc \in DlPcs
                  /\ pc' \notin DlPcs \cup {"Cancelled", "Crashed"}) => pc' = "overrides"
           /\ (pc = "overrides" /\ pc' # "Cancelled") =>
                  /\ ov'.ran
                  /\ ov'.files = archive.tree
                  /\ SkipEvents' = SkipEvents
           /\ (pc = "copy" /\ ov'.copied = ov.copied + 1) =>
                  LET q == override_at(fs', ov.files[ov.i]) IN
                  /\ q \in DOMAIN fs' /\ fs'[q] = "copy"
                  /\ SkipEvents' = SkipEvents
         ]_vars
    /\ [](pc \in {"cleanup", "Done"} => ov.ran)

\* an install run whose plan was empty because every destination existed,
\* and whose override a/b replaced the file that was there
C24_Witness ==
    /\ flow = "install"
    /\ dl.ctx = "files" /\ dl.entries = <<>>
    /\ \E k \in 1..Len(manifest.files) : manifest.files[k].path = <<"a", "b">>
    /\ Logged("USER", "skipping_existing")
    /\ ov.copied = 1
    /\ <<"dest", "a", "b">> \in DOMAIN fs /\ fs[<<"dest", "a", "b">>] = "copy"

(* C25 *)
\* C25: in the download flow, with the destination folder there, the
\* answer to the prompt either leaves the folder as it is or empties it,
\* and nothing else; the plan then holds every manifest entry with a url,
\* with no "skipped" notice, and a transfer that completes has replaced
\* what was at its destination.
C25_AnswerOnlyDecidesWipe ==
    [][ /\ (pc = "prepare" /\ exists(fs, DEST) /\ pc' # "Cancelled") =>
               /\ pc' = "plan"
               /\ fs' = fs \/ fs' = ensure_dir(rmtree(fs, DEST), DEST, TRUE).fs
               /\ manifest' = manifest /\ flow' = flow
        /\ (pc = "plan" /\ flow = "download" /\ pc' # "Cancelled") =>
               /\ Len(dl'.entries) =
                      Cardinality({k \in 1..Len(manifest.files) : HasUrl(manifest.files[k])})
               /\ \A k \in 1..Len(manifest.files) :
                      HasUrl(manifest.files[k]) => InPlanOf(dl', manifest.files[k])
               /\ SkipEvents' = SkipEvents
        /\ (pc = "dl_write" /\ flow = "download" /\ dl'.success = dl.success + 1) =>
               LET q == walk(fs', dl.entries[dl.i].target, Root) IN
               q \in DOMAIN fs' /\ fs'[q] = "full"
      ]_vars

\* the user kept the existing folder, and the plan holds the entry whose
\* file is already there
C25_Witness ==
    /\ flow = "download"
    /\ Logged("USER", "destination_prompt_answered")
    /\ ~Logged("OK", "destination_prepared")
    /\ dl.ctx = "files"
    /\ \E i \in 1..Len(dl.entries) : dl.entries[i].target = <<"dest", "a">>
    /\ <<"dest", "a">> \in DOMAIN fs /\ fs[<<"dest", "a">>] = "old"

====
